---- MODULE Spec2Model ----
(***************************************************************************)
(* Koppen-Geiger climate classification: a model of                        *)
(* koppen_classification/classifier.py (class KoppenClassification).       *)
(*                                                                         *)
(* The arguments of the constructor are the variables precip, temp and     *)
(* south; the object's attributes are the record self (the instance's      *)
(* __dict__: empty until __init__ assigns them); pc is the position of the *)
(* caller (new -> constructed | ValueError) and returned is the value last *)
(* returned by get_classification or summary.                              *)
(*                                                                         *)
(* Arithmetic. Inputs are integer arrays. temp.mean() is a multiple of     *)
(* 1/12 and is held exactly as twelve times its value (temp_mean_x12), and *)
(* so is the threshold (prcp_threshold_x12); the comparisons of the source *)
(* against them are cross-multiplied.  The quotients /2, /3, /10 and /25   *)
(* in classify are compared with integers, and are cross-multiplied too.   *)
(* The product 0.7 * prcp_sum is a binary64 product and is modelled with   *)
(* its rounding (gt_0_7_times).                                            *)
(***************************************************************************)
EXTENDS Integers, Sequences, FiniteSets, TLC

VARIABLES precip, temp, south, self, pc, returned

vars == <<precip, temp, south, self, pc, returned>>

(***************************************************************************)
(* Bounds of the model.                                                    *)
(***************************************************************************)
\* lengths 0..MaxLen of the arrays passed to the constructor
MaxLen == 13
\* the temperature profiles have 0, MaxWarm - 1 or MaxWarm warm months
MaxWarm == 4

\* monthly precipitation values (mm) and temperature values (deg C) tried
PrecipVals == {0, 9, 21, 40, 250}
TempVals == {-40, -10, 0, 5, 10, 18, 22, 25}

(***************************************************************************)
(* numpy reductions over an array                                          *)
(***************************************************************************)
Range(a) == {a[i] : i \in DOMAIN a}

RECURSIVE np_sum(_)
np_sum(a) == IF a = <<>> THEN 0 ELSE Head(a) + np_sum(Tail(a))

np_min(a) == CHOOSE x \in Range(a) : \A y \in Range(a) : x <= y

np_max(a) == CHOOSE x \in Range(a) : \A y \in Range(a) : x >= y

\* (temp > 10).astype(int).sum()
count_gt10(a) == Cardinality({i \in DOMAIN a : a[i] > 10})

\* a[idx], indexing an array by a list of 0-based positions
take(a, idx) == [k \in 1..Len(idx) |-> a[idx[k] + 1]]

(***************************************************************************)
(* Season selection                                                        *)
(***************************************************************************)
mon_sw == << <<3, 4, 5, 6, 7, 8>>, <<0, 1, 2, 9, 10, 11>> >>

\* the hemisphere flag ignored
mon_ind_no_swap(is_south) == [summer |-> mon_sw[1], winter |-> mon_sw[2]]

mon_ind(is_south) ==
    IF is_south THEN [summer |-> mon_sw[2], winter |-> mon_sw[1]]
                ELSE [summer |-> mon_sw[1], winter |-> mon_sw[2]]

(***************************************************************************)
(* x > 0.7 * total, for integers x and total >= 0, as binary64 computes it.*)
(* The double nearest to 0.7 is 0.7 - 0.4 * 2^-53, so the exact product is *)
(* 0.7*total - 0.4*total*2^-53.  When 0.7*total is not an integer it is at *)
(* least 0.1 away from x and rounding cannot change the comparison.  When  *)
(* 0.7*total is the integer n, 2^e <= n < 2^(e+1), the product rounds to n *)
(* unless its deficit (4n/7)*2^-53 exceeds half a unit in the last place,  *)
(* 2^(e-53), i.e. unless 4n > 7*2^e; then it rounds to the double just     *)
(* below n, and x = n compares greater.                                    *)
(***************************************************************************)
RECURSIVE pow2_le(_)
pow2_le(n) == IF n < 2 THEN 1 ELSE 2 * pow2_le(n \div 2)

rounds_below(n) == n > 0 /\ 4 * n > 7 * pow2_le(n)

gt_0_7_times(x, total) ==
    \/ 10 * x > 7 * total
    \/ 10 * x = 7 * total /\ rounds_below(x)

(***************************************************************************)
(* calculate_precip_threshold: twelve times the returned threshold         *)
(***************************************************************************)
\* the adjustments of the two seasons exchanged
calculate_precip_threshold_swapped(s) ==
    IF gt_0_7_times(np_sum(s.prcp_winter), s.prcp_sum)
    THEN 20 * s.temp_mean_x12 + 12 * 280
    ELSE IF gt_0_7_times(np_sum(s.prcp_summer), s.prcp_sum)
    THEN 20 * s.temp_mean_x12
    ELSE 20 * s.temp_mean_x12 + 12 * 140

\* the winter rule taking the coldest month for the annual mean
calculate_precip_threshold_temp_min(s) ==
    IF gt_0_7_times(np_sum(s.prcp_winter), s.prcp_sum)
    THEN 20 * 12 * s.temp_min
    ELSE IF gt_0_7_times(np_sum(s.prcp_summer), s.prcp_sum)
    THEN 20 * s.temp_mean_x12 + 12 * 280
    ELSE 20 * s.temp_mean_x12 + 12 * 140

calculate_precip_threshold(s) ==
    IF gt_0_7_times(np_sum(s.prcp_winter), s.prcp_sum)
    THEN 20 * s.temp_mean_x12
    ELSE IF gt_0_7_times(np_sum(s.prcp_summer), s.prcp_sum)
    THEN 20 * s.temp_mean_x12 + 12 * 280
    ELSE 20 * s.temp_mean_x12 + 12 * 140

(***************************************************************************)
(* classify                                                                *)
(***************************************************************************)
\* the conditions of the if / elif chain
is_B(s) == 12 * s.prcp_sum < s.prcp_threshold_x12

is_A(s) == s.temp_min >= 18

\* 18 degrees included in the temperate band
is_C_closed(s) == s.temp_max > 10 /\ 0 < s.temp_min /\ s.temp_min <= 18

is_C(s) == s.temp_max > 10 /\ 0 < s.temp_min /\ s.temp_min < 18

\* 0 degrees excluded from the continental band
is_D_strict(s) == s.temp_max > 10 /\ s.temp_min < 0

is_D(s) == s.temp_max > 10 /\ s.temp_min <= 0

is_E(s) == s.temp_max <= 10

\* half the threshold counted as desert
arid_letters_closed(s) ==
    (IF 24 * s.prcp_sum <= s.prcp_threshold_x12 THEN "W" ELSE "S")
    \o (IF s.temp_mean_x12 >= 12 * 18 THEN "h" ELSE "k")

arid_letters(s) ==
    (IF 24 * s.prcp_sum < s.prcp_threshold_x12 THEN "W" ELSE "S")
    \o (IF s.temp_mean_x12 >= 12 * 18 THEN "h" ELSE "k")

tropical_letter(s) ==
    IF s.prcp_min >= 60 THEN "f"
    ELSE IF 25 * s.prcp_min >= 2500 - s.prcp_sum THEN "m" ELSE "w"

\* 40 mm counted as a dry summer month
dry_season_letter_closed(s) ==
    IF s.prcp_summer_min <= 40 /\ 3 * s.prcp_summer_min < s.prcp_winter_max
    THEN "s"
    ELSE IF 10 * s.prcp_winter_min < s.prcp_summer_max THEN "w"
    ELSE "f"

dry_season_letter(s) ==
    IF s.prcp_summer_min < 40 /\ 3 * s.prcp_summer_min < s.prcp_winter_max
    THEN "s"
    ELSE IF 10 * s.prcp_winter_min < s.prcp_summer_max THEN "w"
    ELSE "f"

temperate_letter(s) ==
    IF s.temp_max >= 22 THEN "a"
    ELSE IF s.nu_mon_gt10deg >= 4 THEN "b"
    ELSE "c"

continental_letter(s) ==
    IF s.temp_max >= 22 THEN "a"
    ELSE IF s.nu_mon_gt10deg >= 4 THEN "b"
    ELSE IF s.temp_min < -38 THEN "d"
    ELSE "c"

polar_letter(s) == IF s.temp_max > 0 THEN "T" ELSE "F"

\* the tropical group tested before the arid group
classify_A_first(s) ==
    IF is_A(s) THEN "A" \o tropical_letter(s)
    ELSE IF is_B(s) THEN "B" \o arid_letters(s)
    ELSE IF is_C(s) THEN "C" \o dry_season_letter(s) \o temperate_letter(s)
    ELSE IF is_D(s) THEN "D" \o dry_season_letter(s) \o continental_letter(s)
    ELSE IF is_E(s) THEN "E" \o polar_letter(s)
    ELSE "Unknown"

classify(s) ==
    IF is_B(s) THEN "B" \o arid_letters(s)
    ELSE IF is_A(s) THEN "A" \o tropical_letter(s)
    ELSE IF is_C(s) THEN "C" \o dry_season_letter(s) \o temperate_letter(s)
    ELSE IF is_D(s) THEN "D" \o dry_season_letter(s) \o continental_letter(s)
    ELSE IF is_E(s) THEN "E" \o polar_letter(s)
    ELSE "Unknown"

(***************************************************************************)
(* __init__: the length check, then the attributes in assignment order     *)
(***************************************************************************)
\* only arrays that are too short rejected
bad_shape_short(p, t) == Len(p) < 12 \/ Len(t) < 12

bad_shape(p, t) == Len(p) # 12 \/ Len(t) # 12

basic_stats(p, t, is_south) ==
    [precip |-> p, temp |-> t, south |-> is_south,
     temp_mean_x12 |-> np_sum(t),
     prcp_sum |-> np_sum(p),
     prcp_min |-> np_min(p),
     temp_min |-> np_min(t),
     temp_max |-> np_max(t),
     nu_mon_gt10deg |-> count_gt10(t),
     mon_ind |-> mon_ind(is_south),
     prcp_summer |-> take(p, mon_ind(is_south).summer),
     prcp_winter |-> take(p, mon_ind(is_south).winter)]

with_threshold(s) ==
    LET s1 == s @@ [prcp_threshold_x12 |-> calculate_precip_threshold(s)]
    IN  s1 @@ [prcp_summer_min |-> np_min(s1.prcp_summer),
               prcp_summer_max |-> np_max(s1.prcp_summer),
               prcp_winter_min |-> np_min(s1.prcp_winter),
               prcp_winter_max |-> np_max(s1.prcp_winter)]

attributes(p, t, is_south) ==
    LET s == with_threshold(basic_stats(p, t, is_south))
    IN  s @@ [koppen_class |-> classify(s)]

summary(s) ==
    [mean_temperature_x12 |-> s.temp_mean_x12,
     max_temperature |-> s.temp_max,
     min_temperature |-> s.temp_min,
     num_of_months_hotter_than_10_deg |-> s.nu_mon_gt10deg,
     precip_threshold_x12 |-> s.prcp_threshold_x12,
     minimum_summer_precip |-> s.prcp_summer_min,
     maximum_summer_precip |-> s.prcp_summer_max,
     minimum_winter_rain |-> s.prcp_winter_min,
     maximum_winter_rain |-> s.prcp_winter_max,
     annual_accum_rain |-> s.prcp_sum,
     minimum_monthly_rain |-> s.prcp_min]

(***************************************************************************)
(* The records classified                                                  *)
(***************************************************************************)
\* one value per quarter (Jan-Mar, Apr-Jun, Jul-Sep, Oct-Dec)
quarterly(q) == [i \in 1..12 |-> q[((i - 1) \div 3) + 1]]

\* n warm months from April on, the others cold
profile(cold, warm, n) == [i \in 1..12 |-> IF i >= 4 /\ i < 4 + n THEN warm ELSE cold]

uniform(len, v) == [i \in 1..len |-> v]

PrecipInputs == {quarterly(q) : q \in [1..4 -> PrecipVals]}

TempInputs ==
    {profile(x[1], x[2], x[3]) : x \in
        {y \in TempVals \X TempVals \X {0, MaxWarm - 1, MaxWarm} : y[1] <= y[2]}}

\* the arrays of tests/test_classifier.py
test_precip == <<30, 40, 20, 60, 80, 100, 150, 140, 90, 70, 50, 40>>

test_temp == <<10, 12, 15, 18, 20, 25, 30, 28, 22, 15, 12, 8>>

Inputs ==
    (PrecipInputs \X TempInputs)
    \cup {<<test_precip, test_temp>>}
    \cup {<<uniform(n, 5), uniform(m, 5)>> : n \in 0..MaxLen, m \in 0..MaxLen}

(***************************************************************************)
(* The state machine                                                       *)
(***************************************************************************)
NoAttributes == [a \in {} |-> 0]

Init ==
    /\ \E in \in Inputs : precip = in[1] /\ temp = in[2]
    /\ south \in BOOLEAN
    /\ self = NoAttributes
    /\ pc = "new"
    /\ returned = <<>>

\* KoppenClassification(precip, temp, south)
Construct ==
    /\ pc = "new"
    /\ IF bad_shape(precip, temp)
       THEN /\ pc' = "ValueError"
            /\ self' = self
       ELSE /\ pc' = "constructed"
            /\ self' = attributes(precip, temp, south)
    /\ UNCHANGED <<precip, temp, south, returned>>

\* get_classification(writeout)
get_classification ==
    /\ pc = "constructed"
    /\ returned = <<>>
    /\ \E writeout \in BOOLEAN :
          returned' = IF writeout THEN <<self.koppen_class, summary(self)>>
                                  ELSE <<self.koppen_class>>
    /\ UNCHANGED <<precip, temp, south, self, pc>>

Next == Construct \/ get_classification

Spec == Init /\ [][Next]_vars

(***************************************************************************)
(* The statistics of the record as the specification words them, taken     *)
(* from the arguments (months are positions 1..12, January = 1)            *)
(***************************************************************************)
Constructed == pc = "constructed"

SummerMonths == IF south THEN {1, 2, 3, 10, 11, 12} ELSE 4..9

WinterMonths == (1..12) \ SummerMonths

RECURSIVE SumOver(_, _)
SumOver(a, S) ==
    IF S = {} THEN 0
    ELSE LET i == CHOOSE j \in S : TRUE IN a[i] + SumOver(a, S \ {i})

MinOver(a, S) == CHOOSE x \in {a[i] : i \in S} : \A j \in S : x <= a[j]

MaxOver(a, S) == CHOOSE x \in {a[i] : i \in S} : \A j \in S : x >= a[j]

precipSum == SumOver(precip, 1..12)

tempSum == SumOver(temp, 1..12)

tempMin == MinOver(temp, 1..12)

tempMax == MaxOver(temp, 1..12)

monthsAbove10C == Cardinality({i \in 1..12 : temp[i] > 10})

StartsWith(code, letter) == Len(code) >= 1 /\ SubSeq(code, 1, 1) = letter

\* precipSum < threshold, the threshold being the one the object holds
Arid == 12 * precipSum < self.prcp_threshold_x12

(***************************************************************************)
(* C1. Group priority: a record whose statistics satisfy both the Group B  *)
(* condition (precipSum < threshold) and the Group A condition             *)
(* (tempMin >= 18) gets a code that starts with "B", from classify and     *)
(* from get_classification.                                                *)
(***************************************************************************)
C1_GroupPriority ==
    (Constructed /\ Arid /\ tempMin >= 18)
        => /\ StartsWith(self.koppen_class, "B")
           /\ returned # <<>> => StartsWith(returned[1], "B")

C1_Witness ==
    /\ Constructed /\ Arid /\ tempMin >= 18
    /\ returned # <<>> /\ StartsWith(returned[1], "B")

(***************************************************************************)
(* C2. Input shape: the construction raises ValueError exactly when one of *)
(* the two arrays does not have 12 elements, and then no attribute         *)
(* (statistic, threshold or code) has been assigned and nothing is         *)
(* returned; with two arrays of 12 elements the object holds its code.     *)
(***************************************************************************)
C2_InputShape ==
    pc # "new"
        => /\ pc = "ValueError" <=> (Len(precip) # 12 \/ Len(temp) # 12)
           /\ pc = "ValueError" => self = NoAttributes /\ returned = <<>>
           /\ pc = "constructed" => "koppen_class" \in DOMAIN self

C2_Witness ==
    pc = "ValueError" /\ Len(precip) = 12 /\ Len(temp) = 11 /\ self = NoAttributes

(***************************************************************************)
(* C3. Threshold rule, first match wins: 20*tempMean if the winter sum is  *)
(* strictly more than 70% of precipSum, else 20*tempMean + 280 if the      *)
(* summer sum is strictly more than 70% of precipSum, else                 *)
(* 20*tempMean + 140; a season of exactly 70% falls to the next rule.      *)
(***************************************************************************)
C3_ThresholdRule ==
    Constructed
        => self.prcp_threshold_x12 =
              IF 10 * SumOver(precip, WinterMonths) > 7 * precipSum
              THEN 20 * tempSum
              ELSE IF 10 * SumOver(precip, SummerMonths) > 7 * precipSum
              THEN 20 * tempSum + 12 * 280
              ELSE 20 * tempSum + 12 * 140

(***************************************************************************)
(* C4. Group C: a record with precipSum >= threshold, tempMax > 10 and     *)
(* 0 < tempMin < 18 gets "C" + dry + heat, dry = "s" if                    *)
(* precipSummerMin < 40 and precipSummerMin < precipWinterMax/3, else "w"  *)
(* if precipWinterMin < precipSummerMax/10, else "f"; heat = "a" if        *)
(* tempMax >= 22, else "b" if monthsAbove10C >= 4, else "c".  The record   *)
(* of the test script, northern hemisphere, is not arid and gets "Cfa".    *)
(***************************************************************************)
C4_Dry ==
    IF /\ MinOver(precip, SummerMonths) < 40
       /\ 3 * MinOver(precip, SummerMonths) < MaxOver(precip, WinterMonths)
    THEN "s"
    ELSE IF 10 * MinOver(precip, WinterMonths) < MaxOver(precip, SummerMonths)
    THEN "w"
    ELSE "f"

C4_Heat ==
    IF tempMax >= 22 THEN "a" ELSE IF monthsAbove10C >= 4 THEN "b" ELSE "c"

C4_GroupC ==
    /\ (Constructed /\ ~Arid /\ tempMax > 10 /\ 0 < tempMin /\ tempMin < 18)
          => /\ self.koppen_class = "C" \o C4_Dry \o C4_Heat
             /\ Len(self.koppen_class) = 3
    /\ (Constructed /\ precip = test_precip /\ temp = test_temp /\ ~south)
          => /\ precipSum = 870 /\ ~Arid
             /\ self.koppen_class = "Cfa"

C4_Witness ==
    /\ Constructed /\ precip = test_precip /\ temp = test_temp /\ ~south
    /\ ~Arid /\ tempMax > 10 /\ 0 < tempMin /\ tempMin < 18
    /\ self.koppen_class = "Cfa"

(***************************************************************************)
(* C5. Group B: a record with precipSum < threshold gets "B" + x + y,      *)
(* x = "W" if precipSum < threshold/2 and "S" otherwise (also at exactly   *)
(* threshold/2), y = "h" if tempMean >= 18 (also at exactly 18) and "k"    *)
(* otherwise, and nothing more; [5]*12 with [5]*12 gives "BWk".            *)
(***************************************************************************)
C5_GroupB ==
    /\ (Constructed /\ Arid)
          => /\ self.koppen_class =
                   "B" \o (IF 24 * precipSum < self.prcp_threshold_x12
                           THEN "W" ELSE "S")
                       \o (IF tempSum >= 12 * 18 THEN "h" ELSE "k")
             /\ Len(self.koppen_class) = 3
    /\ (Constructed /\ precip = uniform(12, 5) /\ temp = uniform(12, 5))
          => self.prcp_threshold_x12 = 12 * 240 /\ self.koppen_class = "BWk"

\* precipSum is exactly half the threshold and tempMean is exactly 18
C5_Witness ==
    /\ Constructed /\ Arid
    /\ 24 * precipSum = self.prcp_threshold_x12
    /\ tempSum = 12 * 18
    /\ self.koppen_class = "BSh"

(***************************************************************************)
(* C6. Hemisphere symmetry: with south = TRUE the summer array is the      *)
(* months {0,1,2,9,10,11} and the winter array the months 3..8, i.e. the   *)
(* northern seasonal arrays (and their sums, minima, maxima) exchanged,    *)
(* the whole-year statistics are those of the northern run, and the        *)
(* threshold and code are those of the northern run on the record whose    *)
(* precipitation of month i is exchanged with month i+6.                   *)
(***************************************************************************)
C6_HalfYearShift(a) == [i \in 1..12 |-> a[((i + 5) % 12) + 1]]

C6_HemisphereSymmetry ==
    (Constructed /\ south)
        => LET north   == attributes(precip, temp, FALSE)
               shifted == attributes(C6_HalfYearShift(precip), temp, FALSE)
           IN  /\ self.prcp_summer = <<precip[1], precip[2], precip[3],
                                       precip[10], precip[11], precip[12]>>
               /\ self.prcp_winter = SubSeq(precip, 4, 9)
               /\ self.prcp_summer = north.prcp_winter
               /\ self.prcp_winter = north.prcp_summer
               /\ np_sum(self.prcp_summer) = np_sum(north.prcp_winter)
               /\ np_sum(self.prcp_winter) = np_sum(north.prcp_summer)
               /\ self.prcp_summer_min = north.prcp_winter_min
               /\ self.prcp_summer_max = north.prcp_winter_max
               /\ self.prcp_winter_min = north.prcp_summer_min
               /\ self.prcp_winter_max = north.prcp_summer_max
               /\ \A f \in {"temp_mean_x12", "temp_min", "temp_max",
                            "nu_mon_gt10deg", "prcp_sum", "prcp_min"} :
                     self[f] = north[f]
               /\ self.prcp_threshold_x12 = shifted.prcp_threshold_x12
               /\ self.koppen_class = shifted.koppen_class

\* the second run of the test script, whose code differs from the first's
C6_Witness ==
    /\ Constructed /\ south /\ precip = test_precip /\ temp = test_temp
    /\ self.koppen_class = "Csa"
    /\ attributes(precip, temp, FALSE).koppen_class = "Cfa"

(***************************************************************************)
(* C7. Exhaustiveness: for every record of 12 months one of the group      *)
(* conditions B, A, C, D, E holds and the code is never "Unknown", neither *)
(* in the object nor as returned.                                          *)
(***************************************************************************)
C7_NeverUnknown ==
    Constructed
        => /\ \/ Arid
              \/ tempMin >= 18
              \/ tempMax > 10 /\ 0 < tempMin /\ tempMin < 18
              \/ tempMax > 10 /\ tempMin <= 0
              \/ tempMax <= 10
           /\ self.koppen_class # "Unknown"
           /\ returned # <<>> => returned[1] # "Unknown"

\* a non-arid record on the boundary between the bands C and D
C7_Witness ==
    /\ Constructed /\ ~Arid /\ tempMin = 0 /\ tempMax > 10
    /\ returned # <<>> /\ StartsWith(returned[1], "D")

(***************************************************************************)
(* C8. Ice cap: temp = [-10]*12 with any precipitation gives "EF".         *)
(***************************************************************************)
C8_IceCap ==
    (Constructed /\ temp = uniform(12, -10)) => self.koppen_class = "EF"

(***************************************************************************)
(* C8 as amended: temp = [-10]*12 gives "EF" unless precipSum < threshold, *)
(* which happens only under the summer rule of the threshold (threshold    *)
(* 80) with precipSum < 80; the code is then "BWk" if precipSum < 40 and   *)
(* "BSk" otherwise.                                                        *)
(***************************************************************************)
C8_IceCapUnlessArid ==
    (Constructed /\ temp = uniform(12, -10))
        => IF Arid
           THEN /\ 10 * SumOver(precip, SummerMonths) > 7 * precipSum
                /\ self.prcp_threshold_x12 = 12 * 80
                /\ precipSum < 80
                /\ self.koppen_class = IF precipSum < 40 THEN "BWk" ELSE "BSk"
           ELSE self.koppen_class = "EF"

\* summer rainfall of 54 mm and none in winter: steppe, not ice cap
C8_Witness ==
    /\ Constructed /\ temp = uniform(12, -10)
    /\ precipSum = 54 /\ SumOver(precip, SummerMonths) = 54
    /\ self.koppen_class = "BSk"

(***************************************************************************)
(* C9. Threshold monotonicity: of two records with the same precipitation  *)
(* and hemisphere, the one with the smaller or equal tempMean has the      *)
(* smaller or equal threshold.                                             *)
(***************************************************************************)
C9_OtherTemps == {uniform(12, v) : v \in TempVals} \cup {test_temp}

C9_ThresholdMonotone ==
    Constructed
        => \A t \in C9_OtherTemps :
              LET other == with_threshold(basic_stats(precip, t, south))
              IN  /\ self.temp_mean_x12 <= other.temp_mean_x12
                     => self.prcp_threshold_x12 <= other.prcp_threshold_x12
                  /\ other.temp_mean_x12 <= self.temp_mean_x12
                     => other.prcp_threshold_x12 <= self.prcp_threshold_x12

\* a colder record whose coldest month is warmer than the other's
C9_Witness ==
    /\ Constructed
    /\ \E t \in C9_OtherTemps :
          LET other == with_threshold(basic_stats(precip, t, south))
          IN  /\ other.temp_mean_x12 < self.temp_mean_x12
              /\ other.temp_min > self.temp_min
              /\ other.prcp_threshold_x12 < self.prcp_threshold_x12
              /\ 10 * SumOver(precip, WinterMonths) > 7 * precipSum

(***************************************************************************)
(* C10. The temperature bands exclude one another: at most one of the      *)
(* conditions A, C, D, E of classify holds, so the group letter of a       *)
(* non-arid record is the letter of whichever condition holds, in any      *)
(* order of testing.                                                       *)
(***************************************************************************)
C10_Bands ==
    {g \in {"A", "C", "D", "E"} :
        \/ g = "A" /\ is_A(self)
        \/ g = "C" /\ is_C(self)
        \/ g = "D" /\ is_D(self)
        \/ g = "E" /\ is_E(self)}

C10_BandsExclusive ==
    Constructed
        => /\ Cardinality(C10_Bands) <= 1
           /\ ~is_B(self) => \A g \in C10_Bands : StartsWith(self.koppen_class, g)

\* a non-arid record whose coldest month is exactly 18 degrees
C10_Witness ==
    /\ Constructed /\ ~is_B(self) /\ self.temp_min = 18
    /\ C10_Bands = {"A"} /\ StartsWith(self.koppen_class, "A")

====
